---- MODULE Spec2Model ----
(***************************************************************************)
(* Voight-Kampff (src/voight-kampff/app/main.py): the /verify ForwardAuth  *)
(* endpoint, the API-key management endpoints and the web interface over   *)
(* the users and api_keys tables.                                          *)
(*                                                                         *)
(* Every handler is a coroutine: it runs until it awaits the database      *)
(* (session.execute, session.commit, session.refresh) and other requests   *)
(* are served meanwhile.  A step of the model is one database statement    *)
(* of one request together with the code that follows it up to the next    *)
(* await; the code before the first statement touches no table and is part *)
(* of the first step.                                                      *)
(*                                                                         *)
(* Strings that the code parses (header values, the stored scopes column,  *)
(* the days field of the web form) are sequences of atoms; an atom is one  *)
(* character or a run of characters ("Bearer ", "text/html", "tts", a      *)
(* generated secret), and a character that a TLA+ string cannot hold is    *)
(* written by the name of its code point ("U+00E9").  Strings the code     *)
(* only compares or copies (key names, user names) are plain strings, one  *)
(* atom each.                                                              *)
(* Optional[T] is <<>> for None and <<v>> for a value.  Passwords are left *)
(* out: the handlers get the outcome of the password checks as an input.   *)
(***************************************************************************)
EXTENDS Integers, Sequences, FiniteSets, TLC

\* ---------------------------------------------------------------- bounds
MaxTime == 2
MaxToggles == 2
TicksPerDay == 1
NumWorkers == 2
MaxKeys == 2

\* line 29: the default of VK_SESSION_EXPIRE_HOURS
SESSION_EXPIRE_HOURS == 24

\* ------------------------------------------------------- Optional values
None == <<>>
Some(v) == <<v>>
Val(o) == o[1]

\* Python truthiness of an Optional[str]: None and "" are falsy.
Truthy(o) == o # None /\ Val(o) # <<>>

\* Python truthiness of an Optional[int]: None and 0 are falsy.
TruthyInt(o) == o # None /\ Val(o) # 0

\* ------------------------------------------------------------ characters
\* An atom is a run of ASCII characters written as they are ("tts", "/p",
\* "Bearer "), or the name of one character by its code point: "U+" and four
\* to six hexadecimal digits ("U+00E9").  Characters that a TLA+ string
\* cannot hold are written by name.
HexDigits == "0123456789ABCDEF"

\* the printable ASCII characters from 32 to 95 and from 97 to 126
AsciiLow == " !\"#$%&'()*+,-./0123456789:;<=>?@ABCDEFGHIJKLMNOPQRSTUVWXYZ[\\]^_"
AsciiHigh == "abcdefghijklmnopqrstuvwxyz{|}~"

\* the value of a hexadecimal digit
Hex ==
  [c \in {SubSeq(HexDigits, i, i) : i \in 1..16} |->
     (CHOOSE i \in 1..16 : SubSeq(HexDigits, i, i) = c) - 1]

RECURSIVE HexVal(_)
HexVal(s) ==
  IF Len(s) = 0 THEN 0
  ELSE HexVal(SubSeq(s, 1, Len(s) - 1)) * 16 + Hex[SubSeq(s, Len(s), Len(s))]

\* the atom is the name of a character
IsName(a) ==
  /\ Len(a) \in 6..8
  /\ SubSeq(a, 1, 2) = "U+"
  /\ \A i \in 3..Len(a) : SubSeq(a, i, i) \in DOMAIN Hex
  /\ Len(a) > 6 => SubSeq(a, 3, 3) # "0"
  /\ HexVal(SubSeq(a, 3, Len(a))) <= 1114111

\* chr(cp) of the code points that have a character written as it is
Chr ==
  [cp \in {9, 10, 12, 13} \cup (32..95) \cup (97..126) |->
     CASE cp = 9 -> "\t"
       [] cp = 10 -> "\n"
       [] cp = 12 -> "\f"
       [] cp = 13 -> "\r"
       [] cp \in 32..95 -> SubSeq(AsciiLow, cp - 31, cp - 31)
       [] cp \in 97..126 -> SubSeq(AsciiHigh, cp - 96, cp - 96)]

\* ord(c) of a character written as it is
Ord == [c \in {Chr[cp] : cp \in DOMAIN Chr} |-> CHOOSE cp \in DOMAIN Chr : Chr[cp] = c]

\* the code points of the characters of an atom
CodePoints(a) ==
  IF IsName(a) THEN <<HexVal(SubSeq(a, 3, Len(a)))>>
  ELSE [i \in 1..Len(a) |-> Ord[SubSeq(a, i, i)]]

\* str.encode("latin-1") of an atom succeeds: no character is beyond U+00FF
Latin1(a) ==
  LET cps == CodePoints(a)
  IN  \A i \in 1..Len(cps) : cps[i] <= 255

\* the atom of a character, written as it is where it can be
Char(a) ==
  IF IsName(a) /\ HexVal(SubSeq(a, 3, Len(a))) \in DOMAIN Chr
  THEN Chr[HexVal(SubSeq(a, 3, Len(a)))]
  ELSE a

\* the texts of a list, one after the other
RECURSIVE Concat(_)
Concat(l) == IF l = <<>> THEN "" ELSE Head(l) \o Concat(Tail(l))

\* --------------------------------------------------------- str functions
\* the characters str.isspace() is true of
Whitespace ==
  {" ", "\t", "\n", "\r", "\f", "U+000B", "U+001C", "U+001D", "U+001E", "U+001F",
   "U+0085", "U+00A0", "U+1680", "U+2000", "U+2001", "U+2002", "U+2003", "U+2004",
   "U+2005", "U+2006", "U+2007", "U+2008", "U+2009", "U+200A", "U+2028", "U+2029",
   "U+202F", "U+205F", "U+3000"}

\* the characters of an atom, each written as it is where it can be
Chars(a) == IF IsName(a) THEN <<Char(a)>> ELSE [i \in 1..Len(a) |-> SubSeq(a, i, i)]

RECURSIVE Explode(_)
Explode(s) == IF s = <<>> THEN <<>> ELSE Chars(Head(s)) \o Explode(Tail(s))

\* an atom without its leading, its trailing whitespace
RECURSIVE LStripAtom(_)
LStripAtom(a) ==
  IF IsName(a) THEN (IF Char(a) \in Whitespace THEN "" ELSE a)
  ELSE IF Len(a) > 0 /\ SubSeq(a, 1, 1) \in Whitespace
  THEN LStripAtom(SubSeq(a, 2, Len(a)))
  ELSE a

RECURSIVE RStripAtom(_)
RStripAtom(a) ==
  IF IsName(a) THEN (IF Char(a) \in Whitespace THEN "" ELSE a)
  ELSE IF Len(a) > 0 /\ SubSeq(a, Len(a), Len(a)) \in Whitespace
  THEN RStripAtom(SubSeq(a, 1, Len(a) - 1))
  ELSE a

RECURSIVE LStrip(_)
LStrip(s) ==
  IF s = <<>> THEN s
  ELSE IF LStripAtom(Head(s)) = "" THEN LStrip(Tail(s))
  ELSE <<LStripAtom(Head(s))>> \o Tail(s)

RECURSIVE RStrip(_)
RStrip(s) ==
  IF s = <<>> THEN s
  ELSE IF RStripAtom(s[Len(s)]) = "" THEN RStrip(SubSeq(s, 1, Len(s) - 1))
  ELSE SubSeq(s, 1, Len(s) - 1) \o <<RStripAtom(s[Len(s)])>>

\* str.strip()
Strip(s) == RStrip(LStrip(s))

\* str.split(sep): never empty, "".split(",") is [""]
RECURSIVE Split(_, _)
Split(s, sep) ==
  IF \A i \in 1..Len(s) : s[i] # sep
  THEN <<s>>
  ELSE LET i == CHOOSE i \in 1..Len(s) : s[i] = sep /\ \A j \in 1..(i - 1) : s[j] # sep
       IN  <<SubSeq(s, 1, i - 1)>> \o Split(SubSeq(s, i + 1, Len(s)), sep)

\* sep.join(list)
RECURSIVE Join(_, _)
Join(sep, l) ==
  IF l = <<>> THEN <<>>
  ELSE IF Len(l) = 1 THEN l[1]
  ELSE l[1] \o <<sep>> \o Join(sep, Tail(l))

\* s.startswith(prefix), for a one-atom prefix
StartsWith(s, prefix) == s # <<>> /\ s[1] = prefix

\* s.replace(old, ""), for a one-atom old: every occurrence is removed
RECURSIVE RemoveAll(_, _)
RemoveAll(s, old) ==
  IF s = <<>> THEN <<>>
  ELSE IF Head(s) = old THEN RemoveAll(Tail(s), old)
  ELSE <<Head(s)>> \o RemoveAll(Tail(s), old)

\* needle in s, for a one-atom needle
Contains(s, needle) == \E i \in 1..Len(s) : s[i] = needle

\* x in list
InList(x, l) == \E i \in 1..Len(l) : l[i] = x

\* [s.strip() for s in scopes.split(',')]
ParseScopes(scopes) ==
  LET parts == Split(scopes, ",")
  IN  [i \in 1..Len(parts) |-> Strip(parts[i])]

\* urllib.parse.quote with the default safe="/": letters, digits, "_.-~" and
\* "/" are kept, every other character is percent-encoded, one escape per
\* byte of its UTF-8 encoding.
Safe == (48..57) \cup (65..90) \cup (97..122) \cup {45, 46, 47, 95, 126}

Kept(cp) == cp \in Safe

\* str.encode("utf-8") of one character, as bytes
Utf8(cp) ==
  IF cp < 128 THEN <<cp>>
  ELSE IF cp < 2048 THEN <<192 + (cp \div 64), 128 + (cp % 64)>>
  ELSE IF cp < 65536
  THEN <<224 + (cp \div 4096), 128 + ((cp \div 64) % 64), 128 + (cp % 64)>>
  ELSE <<240 + (cp \div 262144), 128 + ((cp \div 4096) % 64),
         128 + ((cp \div 64) % 64), 128 + (cp % 64)>>

\* "%XX" of a byte
Escape(b) ==
  "%" \o SubSeq(HexDigits, (b \div 16) + 1, (b \div 16) + 1)
      \o SubSeq(HexDigits, (b % 16) + 1, (b % 16) + 1)

QuoteChar(cp) ==
  LET bytes == Utf8(cp)
  IN  IF Kept(cp) THEN Chr[cp] ELSE Concat([i \in 1..Len(bytes) |-> Escape(bytes[i])])

QuoteAtom(a) ==
  LET cps == CodePoints(a)
  IN  Concat([i \in 1..Len(cps) |-> QuoteChar(cps[i])])

\* quote of a header value; the server decodes header bytes as latin-1, so
\* no value holds a surrogate, the one kind of character quote raises on
quote(s) == [i \in 1..Len(s) |-> QuoteAtom(s[i])]

\* the code points of the digit zero of every script: the characters of
\* category Nd come in runs of ten, zero to nine (Unicode 14.0)
Digits ==
  {48, 1632, 1776, 1984, 2406, 2534, 2662, 2790, 2918, 3046, 3174, 3302,
   3430, 3558, 3664, 3792, 3872, 4160, 4240, 6112, 6160, 6470, 6608, 6784,
   6800, 6992, 7088, 7232, 7248, 42528, 43216, 43264, 43472, 43504, 43600,
   44016, 65296, 66720, 68912, 69734, 69872, 69942, 70096, 70384, 70736,
   70864, 71248, 71360, 71472, 71904, 72016, 72784, 73040, 73120, 92768,
   92864, 93008, 120782, 120792, 120802, 120812, 120822, 123200, 123632,
   125264, 130032}

\* the atom is one character that int() reads as a decimal digit
IsDigit(a) ==
  LET cps == CodePoints(a)
  IN  Len(cps) = 1 /\ \E z \in Digits : cps[1] \in z..(z + 9)

DigitVal(a) ==
  LET cp == CodePoints(a)[1]
  IN  cp - (CHOOSE z \in Digits : cp \in z..(z + 9))

\* the number a run of digits spells
RECURSIVE Decimal(_)
Decimal(s) ==
  IF s = <<>> THEN 0
  ELSE Decimal(SubSeq(s, 1, Len(s) - 1)) * 10 + DigitVal(s[Len(s)])

\* the characters int() skips around a number: those of str.isspace() but
\* the four separators below U+0020
IntSpace == Whitespace \ {"U+001C", "U+001D", "U+001E", "U+001F"}

\* characters without the whitespace int() skips around a number
Trim(c) ==
  LET inner == {i \in 1..Len(c) : c[i] \notin IntSpace}
  IN  IF inner = {} THEN <<>>
      ELSE SubSeq(c, CHOOSE i \in inner : \A j \in inner : i <= j,
                     CHOOSE i \in inner : \A j \in inner : i >= j)

\* the digits of a number and the single underscores between them are a
\* natural number
Natural(body, digit) ==
  IF /\ body # <<>>
     /\ \A i \in 1..Len(body) : digit[i] \/ body[i] = "_"
     /\ digit[1]
     /\ digit[Len(body)]
     /\ \A i \in 1..(Len(body) - 1) : ~(body[i] = "_" /\ body[i + 1] = "_")
  THEN Some(Decimal(SelectSeq(body, LAMBDA x : x # "_")))
  ELSE None

Unsigned(body) == Natural(body, [i \in 1..Len(body) |-> IsDigit(body[i])])

\* a number after its sign
Signed(t) ==
  IF t # <<>> /\ Head(t) \in {"+", "-"}
  THEN [minus |-> Head(t) = "-", n |-> Unsigned(Tail(t))]
  ELSE [minus |-> FALSE, n |-> Unsigned(t)]

Negated(v) == IF v.n # None /\ v.minus THEN Some(0 - Val(v.n)) ELSE v.n

\* int(s): surrounding whitespace and one sign are allowed, and single
\* underscores between digits; None where int() raises ValueError
IntOf(s) == Negated(Signed(Trim(Explode(s))))

\* ----------------------------------------------------------------- state
VARIABLES
  users,        \* table users, in id order
  api_keys,     \* table api_keys, in id order
  now,          \* the wall clock read by datetime.utcnow()
  tokens,       \* how many secrets secrets.token_urlsafe(48) has returned
  cookies,      \* the session tokens the server has handed to clients
  req,          \* the step taken last: its call, its worker, the inputs it read
  resp,         \* the response, when the step ended its call
  issued,       \* per stored key: the scopes and expires_in_days it was created with
  toggles,      \* per stored key: how many toggles of it were committed
  pc,           \* per worker: the await its request is suspended at
  pending       \* per worker: the local variables of its handler

vars == <<users, api_keys, now, tokens, cookies, req, resp, issued, toggles, pc, pending>>

\* the requests served at the same time
Workers == 1..NumWorkers

\* secrets.token_urlsafe(48): a fresh value on every call
token_urlsafe(n) == <<"k" \o ToString(n + 1)>>

\* datetime.now() on a host whose zone is ahead of UTC
localnow == now + 1

\* datetime.utcnow()
utcnow == now

\* timedelta.max.days
MaxDays == 999999999

\* timedelta(days=d), None where it raises OverflowError
timedelta(d) == IF d < 0 - MaxDays \/ d > MaxDays THEN None ELSE Some(d * TicksPerDay)

\* the day of tick 0 (2026-01-01) and of datetime.max (9999-12-31), counted
\* from 0001-01-01 as day 1
EpochDay == 739617
MaxDay == 3652059

\* datetime + timedelta, None where it raises OverflowError: the date is
\* before year 1 or after year 9999
Plus(t, delta) ==
  LET day == EpochDay + ((t + delta) \div TicksPerDay)
  IN  IF day < 1 \/ day > MaxDay THEN None ELSE Some(t + delta)

\* line 139: max_age = SESSION_EXPIRE_HOURS * 3600 seconds, in ticks
MaxAge == (SESSION_EXPIRE_HOURS * TicksPerDay) \div 24

\* lines 134-135: a token signed with SECRET_KEY that carries the user id and
\* the time of signing; a cookie is the one-atom string of it
serialize_session(user_id) == <<[user_id |-> user_id, iat |-> now, signed |-> TRUE]>>

\* a cookie value that was not signed with SECRET_KEY
Forged == <<[user_id |-> 1, iat |-> 0, signed |-> FALSE]>>

\* lines 137-142: None for a bad signature and for a token older than max_age
deserialize_session(token) ==
  IF token # <<>> /\ token[1].signed /\ now - token[1].iat <= MaxAge
  THEN Some(token[1].user_id)
  ELSE None

\* req of a step that is no step of a call
NoReq == [op |-> "none", step |-> "none", worker |-> 0, ended |-> FALSE]
NoResp == [op |-> "none", status |-> 0]

Init ==
  /\ users = <<>>
  /\ api_keys = <<>>
  /\ now = 0
  /\ tokens = 0
  /\ cookies = {}
  /\ req = NoReq
  /\ resp = NoResp
  /\ issued = <<>>
  /\ toggles = <<>>
  /\ pc = [w \in Workers |-> "idle"]
  /\ pending = [w \in Workers |-> None]

\* the clock advances
Tick ==
  /\ now < MaxTime
  /\ now' = now + 1
  /\ req' = [NoReq EXCEPT !.op = "tick"]
  /\ resp' = NoResp
  /\ UNCHANGED <<users, api_keys, tokens, cookies, issued, toggles, pc, pending>>

\* the id SQLite gives a new row of an INTEGER PRIMARY KEY table: one more
\* than the largest id in the table
NextId(table) == IF table = <<>> THEN 1 ELSE table[Len(table)].id + 1

\* rows of a table matching a predicate, as indices
Rows(table, P(_)) == {i \in 1..Len(table) : P(table[i])}

\* the table without row i
RECURSIVE Without(_, _)
Without(table, i) ==
  IF table = <<>> THEN <<>>
  ELSE IF i = 1 THEN Tail(table)
  ELSE <<Head(table)>> \o Without(Tail(table), i - 1)

\* a new request goes to the first worker that serves none
Free(w) == pc[w] = "idle" /\ \A v \in Workers : v < w => pc[v] # "idle"

\* the step of a call of handler op that worker w takes
Step(op, step, w) == [op |-> op, step |-> step, worker |-> w]

\* the handler of worker w awaits its next database statement, which the
\* step named at sends; locals are the local variables it keeps
Suspend(w, at, request, locals) ==
  /\ pc' = [pc EXCEPT ![w] = at]
  /\ pending' = [pending EXCEPT ![w] = Some(locals)]
  /\ req' = [ended |-> FALSE] @@ request
  /\ resp' = NoResp

\* the handler of worker w returns or raises: the call ends with a response
Finish(w, request, response) ==
  /\ pc' = [pc EXCEPT ![w] = "idle"]
  /\ pending' = [pending EXCEPT ![w] = None]
  /\ req' = [ended |-> TRUE] @@ request
  /\ resp' = response

\* an exception no handler catches: the server answers 500
ServerError(op) == [op |-> op, status |-> 500, detail |-> "Internal Server Error"]

\* ------------------------------------------------------------ operations

\* the User row, with the column defaults (hashed_password left out)
UserRow(id, username, email, t) ==
  [id |-> id, username |-> username, email |-> email, is_active |-> TRUE,
   created_at |-> t, last_login |-> None]

\* POST /auth/register up to its commit (lines 278-324), with the outcome of
\* the two password checks as input
register_submit(w, username, email, passwords_match, password_valid) ==
  /\ Free(w)
  /\ LET request == Step("register", "register_submit", w)
                        @@ [username |-> username, email |-> email]
         page == [op |-> "register", status |-> 200, cookie |-> None]
         hits == Rows(users, LAMBDA u : u.username = username \/ u.email = email)
     IN  IF ~passwords_match \/ ~password_valid
         THEN Finish(w, request, page)
         ELSE IF Cardinality(hits) > 1            \* scalar_one_or_none raises
         THEN Finish(w, request, ServerError("register"))
         ELSE IF hits # {}
         THEN Finish(w, request, page)
         ELSE Suspend(w, "register_commit", request,
                      [username |-> username, email |-> email])
  /\ UNCHANGED <<users, api_keys, now, tokens, cookies, issued, toggles>>

\* line 325: the INSERT; the unique indexes of username and email make it
\* raise when another registration came first
register_commit(w) ==
  /\ pc[w] = "register_commit"
  /\ LET p == Val(pending[w])
         request == Step("register", "register_commit", w)
         hits == Rows(users, LAMBDA u : u.username = p.username \/ u.email = p.email)
     IN  IF hits # {}
         THEN /\ Finish(w, request, ServerError("register"))
              /\ UNCHANGED users
         ELSE /\ users' = Append(users, UserRow(NextId(users), p.username, p.email, utcnow))
              /\ Suspend(w, "register_refresh", request, [id |-> NextId(users)])
  /\ UNCHANGED <<api_keys, now, tokens, cookies, issued, toggles>>

\* lines 326-347: the refresh of the new row, the session token and the redirect
register_refresh(w) ==
  /\ pc[w] = "register_refresh"
  /\ LET session_token == serialize_session(Val(pending[w]).id)
     IN  /\ cookies' = cookies \cup {session_token}
         /\ Finish(w, Step("register", "register_refresh", w),
                   [op |-> "register", status |-> 303, cookie |-> Some(session_token)])
  /\ UNCHANGED <<users, api_keys, now, tokens, issued, toggles>>

\* POST /auth/login up to its commit (lines 215-244), with the outcome of
\* verify_password as input
login_submit(w, username, password_ok) ==
  /\ Free(w)
  /\ LET request == Step("login", "login_submit", w) @@ [username |-> username]
         page == [op |-> "login", status |-> 200, cookie |-> None]
         hits == Rows(users, LAMBDA u : u.username = username)
     IN  IF hits = {} \/ ~password_ok
         THEN Finish(w, request, page)
         ELSE LET user == users[CHOOSE i \in hits : TRUE]
              IN  IF ~user.is_active
                  THEN Finish(w, request, page)
                  ELSE Suspend(w, "login_commit", request,
                               [id |-> user.id, loaded |-> user.last_login,
                                last_login |-> Some(utcnow)])
  /\ UNCHANGED <<users, api_keys, now, tokens, cookies, issued, toggles>>

\* lines 244-267: the UPDATE of last_login, the session token and the redirect;
\* the commit sends no UPDATE when the value assigned equals the one loaded
login_commit(w) ==
  /\ pc[w] = "login_commit"
  /\ LET p == Val(pending[w])
         i == CHOOSE i \in 1..Len(users) : users[i].id = p.id
         session_token == serialize_session(p.id)
     IN  /\ IF p.last_login = p.loaded
            THEN UNCHANGED users
            ELSE users' = [users EXCEPT ![i].last_login = p.last_login]
         /\ cookies' = cookies \cup {session_token}
         /\ Finish(w, Step("login", "login_commit", w),
                   [op |-> "login", status |-> 303, cookie |-> Some(session_token)])
  /\ UNCHANGED <<api_keys, now, tokens, issued, toggles>>

\* the redirect of a web handler
Redirect(op, location) == [op |-> op, status |-> 303, location |-> location]

\* datetime.utcnow() + timedelta(days=days) at time t; error where either
\* raises OverflowError
After(days, t) ==
  LET delta == timedelta(days)
      at == IF delta = None THEN None ELSE Plus(t, Val(delta))
  IN  [error |-> at = None, expires_at |-> at]

\* lines 677-680: the expiration of a key created through POST /keys
ExpiresAt(expires_in_days, t) ==
  IF TruthyInt(expires_in_days) THEN After(Val(expires_in_days), t)
  ELSE [error |-> FALSE, expires_at |-> None]

\* the APIKey row, with the column defaults
APIKeyRow(id, key_name, api_key, user_id, user, scopes, expires_at, t) ==
  [id |-> id, key_name |-> key_name, api_key |-> api_key, user_id |-> user_id,
   user |-> user, scopes |-> scopes, is_active |-> TRUE, created_at |-> t,
   last_used |-> None, expires_at |-> expires_at]

\* session.add(db_key) and the INSERT of the commit: the row gets its id and
\* its created_at when it is inserted
Insert(db_key, expires_in_days) ==
  /\ api_keys' = Append(api_keys,
                        APIKeyRow(NextId(api_keys), db_key.key_name, db_key.api_key,
                                  db_key.user_id, db_key.user, Join(",", db_key.scopes),
                                  db_key.expires_at, utcnow))
  /\ issued' = Append(issued, [scopes |-> db_key.scopes,
                                expires_in_days |-> expires_in_days])
  /\ toggles' = Append(toggles, 0)

\* POST /keys up to its commit (lines 655-692); an OverflowError of line 680
\* ends the call after the secret is drawn
create_api_key(w, key_data) ==
  /\ Free(w)
  /\ LET request == Step("create", "create_api_key", w) @@ key_data
     IN  IF Rows(api_keys, LAMBDA k : k.key_name = key_data.key_name) # {}
         THEN /\ Finish(w, request,
                        [op |-> "create", status |-> 400,
                         detail |-> "An API key with this name already exists"])
              /\ UNCHANGED tokens
         ELSE /\ tokens < MaxKeys                 \* the secrets drawn are kept bounded
              /\ tokens' = tokens + 1
              /\ IF ExpiresAt(key_data.expires_in_days, utcnow).error
                 THEN Finish(w, request, ServerError("create"))
                 ELSE Suspend(w, "create_commit", request,
                              key_data @@ [api_key |-> token_urlsafe(tokens), user_id |-> 0,
                                           expires_at |->
                                             ExpiresAt(key_data.expires_in_days,
                                                       utcnow).expires_at])
  /\ UNCHANGED <<users, api_keys, now, cookies, issued, toggles>>

\* line 693: the INSERT; the unique index of key_name makes it raise when
\* another request stored the name first
create_commit(w) ==
  /\ pc[w] = "create_commit"
  /\ LET p == Val(pending[w])
         request == Step("create", "create_commit", w)
     IN  IF Rows(api_keys, LAMBDA k : k.key_name = p.key_name) # {}
         THEN /\ Finish(w, request, ServerError("create"))
              /\ UNCHANGED <<api_keys, issued, toggles>>
         ELSE /\ Insert(p, p.expires_in_days)
              /\ Suspend(w, "create_refresh", request,
                         [id |-> NextId(api_keys), scopes |-> p.scopes])
  /\ UNCHANGED <<users, now, tokens, cookies>>

\* lines 694-706: the refresh, a SELECT by id that raises when the row is
\* gone, and the response built from the row it loads
create_refresh(w) ==
  /\ pc[w] = "create_refresh"
  /\ LET p == Val(pending[w])
         request == Step("create", "create_refresh", w)
         hits == Rows(api_keys, LAMBDA k : k.id = p.id)
     IN  IF hits = {}
         THEN Finish(w, request, ServerError("create"))
         ELSE LET db_key == api_keys[CHOOSE i \in hits : TRUE]
              IN  Finish(w, request,
                         [op |-> "create", status |-> 200, id |-> db_key.id,
                          key_name |-> db_key.key_name, api_key |-> db_key.api_key,
                          user |-> db_key.user, scopes |-> p.scopes,
                          is_active |-> db_key.is_active,
                          created_at |-> db_key.created_at,
                          last_used |-> db_key.last_used,
                          expires_at |-> db_key.expires_at])
  /\ UNCHANGED <<users, api_keys, now, tokens, cookies, issued, toggles>>

\* the APIKeyList entry of a row: every column but api_key
APIKeyList(key) ==
  [id |-> key.id, key_name |-> key.key_name, user |-> key.user,
   scopes |-> ParseScopes(key.scopes), is_active |-> key.is_active,
   created_at |-> key.created_at, last_used |-> key.last_used,
   expires_at |-> key.expires_at]

\* GET /keys: one SELECT
list_api_keys(w) ==
  /\ Free(w)
  /\ Finish(w, Step("list", "list_api_keys", w),
            [op |-> "list", status |-> 200,
             keys |-> [i \in 1..Len(api_keys) |-> APIKeyList(api_keys[i])]])
  /\ UNCHANGED <<users, api_keys, now, tokens, cookies, issued, toggles>>

\* DELETE /keys/{key_id} up to its commit (lines 732-751)
delete_api_key(w, key_id) ==
  /\ Free(w)
  /\ LET request == Step("delete", "delete_api_key", w) @@ [key_id |-> key_id]
     IN  IF Rows(api_keys, LAMBDA k : k.id = key_id) = {}
         THEN Finish(w, request,
                     [op |-> "delete", status |-> 404, detail |-> "API key not found"])
         ELSE Suspend(w, "delete_commit", request, [op |-> "delete", id |-> key_id])
  /\ UNCHANGED <<users, api_keys, now, tokens, cookies, issued, toggles>>

\* lines 752-754 and 498-502: DELETE FROM api_keys WHERE id = ...; a
\* statement that matches no row is only warned about
delete_commit(w) ==
  /\ pc[w] = "delete_commit"
  /\ LET p == Val(pending[w])
         request == Step(p.op, "delete_commit", w)
         hits == Rows(api_keys, LAMBDA k : k.id = p.id)
     IN  /\ IF hits = {}
            THEN UNCHANGED <<api_keys, issued, toggles>>
            ELSE LET i == CHOOSE i \in hits : TRUE
                 IN  /\ api_keys' = Without(api_keys, i)
                     /\ issued' = Without(issued, i)
                     /\ toggles' = Without(toggles, i)
         /\ IF p.op = "delete"
            THEN Finish(w, request,
                        [op |-> "delete", status |-> 200,
                         detail |-> "API key deleted successfully"])
            ELSE Finish(w, request, Redirect("delete_key_web", "dashboard?success"))
  /\ UNCHANGED <<users, now, tokens, cookies>>

\* lines 775 and 464: the flag after a toggle
Toggled(is_active) == ~is_active

\* PATCH /keys/{key_id}/toggle up to its commit (lines 756-775)
toggle_api_key(w, key_id) ==
  /\ Free(w)
  /\ LET request == Step("toggle", "toggle_api_key", w) @@ [key_id |-> key_id]
         hits == Rows(api_keys, LAMBDA k : k.id = key_id)
     IN  IF hits = {}
         THEN Finish(w, request,
                     [op |-> "toggle", status |-> 404, detail |-> "API key not found"])
         ELSE LET i == CHOOSE i \in hits : TRUE
              IN  /\ toggles[i] < MaxToggles      \* the toggles are kept bounded
                  /\ Suspend(w, "toggle_commit", request,
                             [op |-> "toggle", id |-> key_id,
                              is_active |-> Toggled(api_keys[i].is_active)])
  /\ UNCHANGED <<users, api_keys, now, tokens, cookies, issued, toggles>>

\* lines 776-781 and 465-473: UPDATE api_keys SET is_active = ... WHERE
\* id = ...; a statement that matches no row raises StaleDataError
toggle_commit(w) ==
  /\ pc[w] = "toggle_commit"
  /\ LET p == Val(pending[w])
         request == Step(p.op, "toggle_commit", w)
         hits == Rows(api_keys, LAMBDA k : k.id = p.id)
     IN  IF hits = {}
         THEN /\ Finish(w, request, ServerError(p.op))
              /\ UNCHANGED <<api_keys, toggles>>
         ELSE LET i == CHOOSE i \in hits : TRUE
              IN  /\ api_keys' = [api_keys EXCEPT ![i].is_active = p.is_active]
                  /\ toggles' = [toggles EXCEPT ![i] = @ + 1]
                  /\ IF p.op = "toggle"
                     THEN Finish(w, request, [op |-> "toggle", status |-> 200,
                                              is_active |-> p.is_active])
                     ELSE Finish(w, request,
                                 Redirect("toggle_key_web", "dashboard?success"))
  /\ UNCHANGED <<users, now, tokens, cookies, issued>>

\* ----------------------------------------------------------- GET /verify
\* lines 514-521: the headers and the cookie the handler reads
Request(authorization, x_api_key, cookie, x_forwarded_host, x_forwarded_uri, accept, user_agent) ==
  [authorization |-> authorization, x_api_key |-> x_api_key, cookie |-> cookie,
   x_forwarded_host |-> x_forwarded_host, x_forwarded_uri |-> x_forwarded_uri,
   accept |-> accept, user_agent |-> user_agent]

\* lines 531-533: the service a forwarded host names
ServiceOf(x_forwarded_host) ==
  IF Truthy(x_forwarded_host) THEN Split(Val(x_forwarded_host), ".")[1] ELSE <<"unknown">>

\* the chain with the session cookie tried first
CarrierCookieFirst(r) ==
  IF Truthy(r.cookie) THEN "cookie"
  ELSE IF Truthy(r.authorization) /\ StartsWith(Val(r.authorization), "Bearer ")
  THEN "bearer"
  ELSE IF Truthy(r.x_api_key) THEN "x_api_key"
  ELSE "none"

\* lines 536, 540, 544: the first carrier of the if/elif chain that is taken
Carrier(r) ==
  IF Truthy(r.authorization) /\ StartsWith(Val(r.authorization), "Bearer ")
  THEN "bearer"
  ELSE IF Truthy(r.x_api_key) THEN "x_api_key"
  ELSE IF Truthy(r.cookie) THEN "cookie"
  ELSE "none"

\* lines 546-553 and 161-170: the active user a session cookie stands for, as
\* rows of users
SessionUsers(cookie) ==
  LET user_id == deserialize_session(Val(cookie))
  IN  IF TruthyInt(user_id)
      THEN Rows(users, LAMBDA u : u.id = Val(user_id) /\ u.is_active)
      ELSE {}

\* lines 569-570 and 628-629: the scope test on the stored scopes column
ScopeAllows(scopes, service) ==
  LET allowed_scopes == ParseScopes(scopes)
  IN  InList(service, allowed_scopes) \/ InList(<<"*">>, allowed_scopes)

\* the loop over the user's active keys in ascending order of created_at
SessionKeysOldestFirst(user_id, service) ==
  LET match == Rows(api_keys, LAMBDA k : /\ k.user_id = user_id
                                          /\ k.is_active
                                          /\ ScopeAllows(k.scopes, service))
  IN  {i \in match : \A j \in match : api_keys[i].created_at <= api_keys[j].created_at}

\* lines 559-572: the keys the loop over the user's active keys, newest first,
\* may stop at (rows with equal created_at come in either order)
SessionKeys(user_id, service) ==
  LET match == Rows(api_keys, LAMBDA k : /\ k.user_id = user_id
                                          /\ k.is_active
                                          /\ ScopeAllows(k.scopes, service))
  IN  {i \in match : \A j \in match : api_keys[j].created_at <= api_keys[i].created_at}

\* the heuristic without the Accept header
IsBrowserUserAgentOnly(r) ==
  LET user_agent == IF r.user_agent = None THEN <<>> ELSE Val(r.user_agent)
  IN  Contains(user_agent, "Mozilla")

\* lines 577-583: the browser heuristic
IsBrowser(r) ==
  LET accept_header == IF r.accept = None THEN <<>> ELSE Val(r.accept)
      user_agent == IF r.user_agent = None THEN <<>> ELSE Val(r.user_agent)
  IN  Contains(accept_header, "text/html") \/ Contains(user_agent, "Mozilla")

\* an Optional[str] inside an f-string
Format(o) == IF o = None THEN <<"None">> ELSE Val(o)

\* lines 587-591: the Location of the login redirect
RedirectUrl(r) ==
  IF Truthy(r.x_forwarded_uri)
  THEN <<"https://auth.caronboulme.fr/auth/login", "?redirect=">>
       \o quote(<<"https://">> \o Format(r.x_forwarded_host) \o Format(r.x_forwarded_uri))
  ELSE <<"https://auth.caronboulme.fr/auth/login">>

\* the expiration test with the comparison turned around
IsExpiredReversed(db_key, t) == db_key.expires_at # None /\ Val(db_key.expires_at) > t

\* line 621: the expiration test
IsExpired(db_key, t) == db_key.expires_at # None /\ Val(db_key.expires_at) < t

\* a response of /verify; key is the id of the row an ALLOW is about
Response(status, detail) ==
  [op |-> "verify", status |-> status, detail |-> detail, location |-> <<>>,
   user |-> "", service |-> <<>>, scopes |-> <<>>, key |-> 0]

\* lines 574-599: the answer to a request without candidate
NoCandidate(r) ==
  IF IsBrowser(r)
  THEN [Response(302, "") EXCEPT !.location = RedirectUrl(r)]
  ELSE Response(401, "Missing or invalid authentication")

\* line 602: the row the SELECT by secret gives the handler.  A row whose
\* primary key the session already holds (the cookie path loaded the user's
\* keys at line 559) comes back as the object loaded then, with the
\* attributes of then.
Load(api_key, cached) ==
  LET hits == Rows(api_keys, LAMBDA k : k.api_key = api_key)
  IN  IF hits = {} THEN None
      ELSE LET row == api_keys[CHOOSE i \in hits : TRUE]
           IN  IF cached # None /\ Val(cached).id = row.id THEN cached ELSE Some(row)

\* the checks without the is_active test
CheckSkipsActive(db_key, service, t) ==
  IF db_key = None THEN "Invalid API key"
  ELSE IF IsExpired(Val(db_key), t) THEN "API key has expired"
  ELSE IF ~ScopeAllows(Val(db_key).scopes, service) THEN "Access denied"
  ELSE "ok"

\* the checks with the expiration test before the is_active test
CheckExpiryFirst(db_key, service, t) ==
  IF db_key = None THEN "Invalid API key"
  ELSE IF IsExpired(Val(db_key), t) THEN "API key has expired"
  ELSE IF ~Val(db_key).is_active THEN "API key is disabled"
  ELSE IF ~ScopeAllows(Val(db_key).scopes, service) THEN "Access denied"
  ELSE "ok"

\* lines 606-633: the checks on the looked-up row, in the order of the code;
\* "ok" when all pass
Check(db_key, service, t) ==
  IF db_key = None THEN "Invalid API key"
  ELSE IF ~Val(db_key).is_active THEN "API key is disabled"
  ELSE IF IsExpired(Val(db_key), t) THEN "API key has expired"
  ELSE IF ~ScopeAllows(Val(db_key).scopes, service) THEN "Access denied"
  ELSE "ok"

\* HTTP status of each outcome of Check
StatusOf(detail) ==
  CASE detail = "Invalid API key" -> 401
    [] detail = "ok" -> 200
    [] OTHER -> 403

\* the user name of the session alone, with no fall back to the key's
FinalUserSessionOnly(user_name, db_key) == user_name

\* line 640: the user name of the ALLOW payload
FinalUser(user_name, db_key) == IF user_name # "unknown" THEN user_name ELSE db_key.user

\* lines 646-650: the values of the headers X-VK-User, X-VK-Service and
\* X-VK-Scopes, one after the other
Headers(user_name, db_key, service) ==
  <<FinalUser(user_name, db_key)>> \o service \o db_key.scopes

\* lines 639-651: the ALLOW response.  JSONResponse encodes the values of
\* its headers as latin-1: a user or a scope with a character beyond U+00FF
\* makes line 643 raise UnicodeEncodeError and the server answers 500
Allow(user_name, db_key, service) ==
  IF \A i \in 1..Len(Headers(user_name, db_key, service)) :
       Latin1(Headers(user_name, db_key, service)[i])
  THEN [Response(200, "") EXCEPT !.user = FinalUser(user_name, db_key),
                                 !.service = service,
                                 !.scopes = db_key.scopes,
                                 !.key = db_key.id]
  ELSE Response(500, "Internal Server Error")

\* lines 604-633: the denial the checks raise at clock reading t, None when
\* they pass
Denial(db_key, service, t) ==
  LET detail == Check(db_key, service, t)
  IN  IF detail = "ok" THEN None
      ELSE Some([Response(StatusOf(detail), detail) EXCEPT !.service = service])

\* lines 601-636, from the candidate to the await of the commit: the SELECT by
\* secret, the checks and the assignment of last_used; the clock may advance
\* between the expiration test (line 621) and the assignment (line 636).  Of
\* the request the handler keeps, the locals hold the carrier it took.
Lookup(w, request, carrier, api_key, user_name, cached, service) ==
  \E d \in {0, 1} :
    LET db_key == Load(api_key, cached)
        denial == Denial(db_key, service, utcnow)
    IN  IF denial = None
        THEN /\ now + d <= MaxTime
             /\ now' = now + d
             /\ Suspend(w, "verify_commit", request,
                        [carrier |-> carrier, db_key |-> Val(db_key),
                         last_used |-> Some(utcnow + d), user_name |-> user_name,
                         service |-> service])
        ELSE /\ d = 0
             /\ UNCHANGED now
             /\ Finish(w, request, Val(denial))

\* GET /verify up to its second database statement (lines 513-557): a
\* candidate from a header goes straight to the SELECT of line 602, a session
\* cookie first loads its user
verify_api_key(w, r) ==
  /\ Free(w)
  /\ LET request == Step("verify", "verify_api_key", w) @@ r
         service == ServiceOf(r.x_forwarded_host)
         c == Carrier(r)
         api_key == CASE c = "bearer" -> Strip(RemoveAll(Val(r.authorization), "Bearer "))
                      [] c = "x_api_key" -> Strip(Val(r.x_api_key))
                      [] OTHER -> <<>>
         us == IF c = "cookie" THEN SessionUsers(r.cookie) ELSE {}
     IN  IF us # {}
         THEN /\ Suspend(w, "verify_keys", request,
                         [r |-> r, user_id |-> users[CHOOSE u \in us : TRUE].id,
                          user_name |-> users[CHOOSE u \in us : TRUE].username])
              /\ UNCHANGED now
         ELSE IF api_key = <<>>
         THEN /\ Finish(w, request, NoCandidate(r))
              /\ UNCHANGED now
         ELSE Lookup(w, request, c, api_key, "unknown", None, service)
  /\ UNCHANGED <<users, api_keys, tokens, cookies, issued, toggles>>

\* lines 559-572: the SELECT of the user's active keys, newest first, and the
\* loop that stops at the first one in scope
verify_keys(w) ==
  /\ pc[w] = "verify_keys"
  /\ LET p == Val(pending[w])
         request == Step("verify", "verify_keys", w)
         service == ServiceOf(p.r.x_forwarded_host)
         ks == SessionKeys(p.user_id, service)
     IN  IF ks = {}
         THEN Finish(w, request, NoCandidate(p.r))
         ELSE \E i \in ks :
                Suspend(w, "verify_lookup", request,
                        [api_key |-> api_keys[i].api_key, cached |-> Some(api_keys[i]),
                         user_id |-> p.user_id, user_name |-> p.user_name,
                         service |-> service])
  /\ UNCHANGED <<users, api_keys, now, tokens, cookies, issued, toggles>>

\* lines 601-636 of a call that came through the session cookie
verify_lookup(w) ==
  /\ pc[w] = "verify_lookup"
  /\ LET p == Val(pending[w])
     IN  Lookup(w, Step("verify", "verify_lookup", w), "cookie", p.api_key, p.user_name,
                p.cached, p.service)
  /\ UNCHANGED <<users, api_keys, tokens, cookies, issued, toggles>>

\* lines 636-637: UPDATE api_keys SET last_used = ... WHERE id = ..., on row i
Touch(keys, i, last_used) == [keys EXCEPT ![i].last_used = last_used]

\* the await of session.commit() (line 637) and the response (lines 639-651).
\* A last_used equal to the loaded one is no change and no statement is sent;
\* otherwise an UPDATE by primary key, which raises StaleDataError when it
\* matches no row.  The response is built after the commit: when line 643
\* raises, the call ends in a 500 with last_used written
verify_commit(w) ==
  /\ pc[w] = "verify_commit"
  /\ LET p == Val(pending[w])
         request == Step("verify", "verify_commit", w) @@ [carrier |-> p.carrier]
         hits == Rows(api_keys, LAMBDA k : k.id = p.db_key.id)
     IN  IF p.last_used = p.db_key.last_used
         THEN /\ Finish(w, request, Allow(p.user_name, p.db_key, p.service))
              /\ UNCHANGED api_keys
         ELSE IF hits = {}
         THEN /\ Finish(w, request, Response(500, "Internal Server Error"))
              /\ UNCHANGED api_keys
         ELSE /\ api_keys' = Touch(api_keys, CHOOSE i \in hits : TRUE, p.last_used)
              /\ Finish(w, request, Allow(p.user_name, p.db_key, p.service))
  /\ UNCHANGED <<users, now, tokens, cookies, issued, toggles>>

\* a handler that catches the error of the commit and answers as if it held
verify_commit_swallowed(w) ==
  /\ pc[w] = "verify_commit"
  /\ LET p == Val(pending[w])
     IN  Finish(w, Step("verify", "verify_commit_fails", w) @@ [carrier |-> p.carrier],
                Allow(p.user_name, p.db_key, p.service))
  /\ UNCHANGED <<users, api_keys, now, tokens, cookies, issued, toggles>>

\* line 637 when session.commit() raises (the database is locked or gone):
\* nothing is written, the exception leaves the handler before line 643 and
\* the server answers 500
verify_commit_fails(w) ==
  /\ pc[w] = "verify_commit"
  /\ Finish(w, Step("verify", "verify_commit_fails", w)
                 @@ [carrier |-> Val(pending[w]).carrier],
            Response(500, "Internal Server Error"))
  /\ UNCHANGED <<users, api_keys, now, tokens, cookies, issued, toggles>>

\* ------------------------------------------------------- web interface

\* lines 156-170: get_current_user, as rows of users
get_current_user(cookie) ==
  IF ~Truthy(cookie) THEN {} ELSE SessionUsers(cookie)

\* POST /auth/dashboard/create-key up to the SELECT of its name check: the
\* dependency get_current_user (lines 156-170) and line 399
create_key_web(w, cookie, key_name, scopes, expires_in_days) ==
  /\ Free(w)
  /\ LET request == Step("create_key_web", "create_key_web", w)
                      @@ [cookie |-> cookie, key_name |-> key_name, scopes |-> scopes,
                          expires_in_days |-> expires_in_days]
         us == get_current_user(cookie)
     IN  IF us = {}
         THEN Finish(w, request, Redirect("create_key_web", "login"))
         ELSE Suspend(w, "create_key_web_check", request,
                      [key_name |-> key_name, scopes |-> scopes,
                       expires_in_days |-> expires_in_days,
                       user_id |-> users[CHOOSE u \in us : TRUE].id,
                       user |-> users[CHOOSE u \in us : TRUE].username])
  /\ UNCHANGED <<users, api_keys, now, tokens, cookies, issued, toggles>>

\* the sum for the days int() read, if it read any
AfterDays(days, t) ==
  IF days = None THEN [error |-> TRUE, days |-> None, expires_at |-> None]
  ELSE After(Val(days), t) @@ [days |-> days]

\* lines 417-419: the expiration of a key created through the web form;
\* int() raises ValueError on a days field that is no integer, the sum
\* raises OverflowError
WebExpiresAt(expires_in_days, t) ==
  IF Truthy(expires_in_days) /\ Strip(Val(expires_in_days)) # <<>>
  THEN AfterDays(IntOf(Val(expires_in_days)), t)
  ELSE [error |-> FALSE, days |-> None, expires_at |-> None]

\* lines 402-430: the name check among the user's keys, the secret, the
\* expiration; every exception ends in the redirect of line 438
create_key_web_check(w) ==
  /\ pc[w] = "create_key_web_check"
  /\ LET p == Val(pending[w])
         request == Step("create_key_web", "create_key_web_check", w)
         e == WebExpiresAt(p.expires_in_days, utcnow)
     IN  IF Rows(api_keys, LAMBDA k : /\ k.key_name = p.key_name
                                       /\ k.user_id = p.user_id) # {}
         THEN /\ Finish(w, request, Redirect("create_key_web", "dashboard?error"))
              /\ UNCHANGED tokens
         ELSE /\ tokens < MaxKeys                 \* the secrets drawn are kept bounded
              /\ tokens' = tokens + 1
              /\ IF e.error
                 THEN Finish(w, request, Redirect("create_key_web", "dashboard?error"))
                 ELSE Suspend(w, "create_key_web_commit", request,
                              [key_name |-> p.key_name, scopes |-> p.scopes,
                               user_id |-> p.user_id, user |-> p.user,
                               api_key |-> token_urlsafe(tokens),
                               expires_in_days |-> e.days,
                               expires_at |-> e.expires_at])
  /\ UNCHANGED <<users, api_keys, now, cookies, issued, toggles>>

\* lines 432-441: the INSERT; an IntegrityError of the unique index of
\* key_name ends in the redirect of line 438 too
create_key_web_commit(w) ==
  /\ pc[w] = "create_key_web_commit"
  /\ LET p == Val(pending[w])
         request == Step("create_key_web", "create_key_web_commit", w)
     IN  IF Rows(api_keys, LAMBDA k : k.key_name = p.key_name) # {}
         THEN /\ Finish(w, request, Redirect("create_key_web", "dashboard?error"))
              /\ UNCHANGED <<api_keys, issued, toggles>>
         ELSE /\ Insert(p, p.expires_in_days)
              /\ Finish(w, request, Redirect("create_key_web", "dashboard?success"))
  /\ UNCHANGED <<users, now, tokens, cookies>>

\* POST /auth/dashboard/toggle-key/{key_id} up to its SELECT of the key: the
\* dependency get_current_user and line 452
toggle_key_web(w, cookie, key_id) ==
  /\ Free(w)
  /\ LET request == Step("toggle_key_web", "toggle_key_web", w)
                      @@ [cookie |-> cookie, key_id |-> key_id]
         us == get_current_user(cookie)
     IN  IF us = {}
         THEN Finish(w, request, Redirect("toggle_key_web", "login"))
         ELSE Suspend(w, "toggle_key_web_select", request,
                      [key_id |-> key_id, user_id |-> users[CHOOSE u \in us : TRUE].id])
  /\ UNCHANGED <<users, api_keys, now, tokens, cookies, issued, toggles>>

\* lines 455-464: the SELECT of the key among the user's keys and the flip
toggle_key_web_select(w) ==
  /\ pc[w] = "toggle_key_web_select"
  /\ LET p == Val(pending[w])
         request == Step("toggle_key_web", "toggle_key_web_select", w)
         hits == Rows(api_keys, LAMBDA k : k.id = p.key_id /\ k.user_id = p.user_id)
     IN  IF hits = {}
         THEN Finish(w, request, Redirect("toggle_key_web", "dashboard?error"))
         ELSE LET i == CHOOSE i \in hits : TRUE
              IN  /\ toggles[i] < MaxToggles      \* the toggles are kept bounded
                  /\ Suspend(w, "toggle_commit", request,
                             [op |-> "toggle_key_web", id |-> p.key_id,
                              is_active |-> Toggled(api_keys[i].is_active)])
  /\ UNCHANGED <<users, api_keys, now, tokens, cookies, issued, toggles>>

\* POST /auth/dashboard/delete-key/{key_id} up to its SELECT of the key: the
\* dependency get_current_user and line 482
delete_key_web(w, cookie, key_id) ==
  /\ Free(w)
  /\ LET request == Step("delete_key_web", "delete_key_web", w)
                      @@ [cookie |-> cookie, key_id |-> key_id]
         us == get_current_user(cookie)
     IN  IF us = {}
         THEN Finish(w, request, Redirect("delete_key_web", "login"))
         ELSE Suspend(w, "delete_key_web_select", request,
                      [key_id |-> key_id, user_id |-> users[CHOOSE u \in us : TRUE].id])
  /\ UNCHANGED <<users, api_keys, now, tokens, cookies, issued, toggles>>

\* lines 485-498: the SELECT of the key among the user's keys
delete_key_web_select(w) ==
  /\ pc[w] = "delete_key_web_select"
  /\ LET p == Val(pending[w])
         request == Step("delete_key_web", "delete_key_web_select", w)
     IN  IF Rows(api_keys, LAMBDA k : k.id = p.key_id /\ k.user_id = p.user_id) = {}
         THEN Finish(w, request, Redirect("delete_key_web", "dashboard?error"))
         ELSE Suspend(w, "delete_commit", request,
                      [op |-> "delete_key_web", id |-> p.key_id])
  /\ UNCHANGED <<users, api_keys, now, tokens, cookies, issued, toggles>>

\* -------------------------------------------------------------- inputs
Usernames == {"alice"}
Emails == {"a@example"}
KeyNames == {"n1"}
Principals == {"svc"}

\* a name of one character beyond U+00FF
Wide == "U+4E2D"

tts == <<"tts">>
stt == <<"stt">>
llm == <<"llm">>
star == <<"*">>

\* the ids a client may name
KeyIds == 1..MaxKeys

\* key data of the service with the given scopes lists and numbers of days
KeyData(scopes, expires_in_days) ==
  [key_name : KeyNames, user : Principals, scopes : scopes,
   expires_in_days : expires_in_days]

Hosts == {Some(<<"tts", ".", "example">>), Some(<<"llm", ".", "example">>)}

\* requests of API clients: a Bearer header, an X-API-Key header, both or none
HeaderRequests ==
  { Request(a, x, None, h, None, None, None) :
      a \in {None, Some(<<"Bearer ", "k1">>)},
      x \in {None, Some(<<"k1", " ">>)},
      h \in Hosts }

\* the cookies a client may send: none, a forged one, one the server issued
Cookies == {None, Some(Forged)} \cup {Some(c) : c \in cookies}

\* --------------------------------------------------- calls, step by step
\* POST /keys with key data of K
Create(K) ==
  \/ \E w \in Workers, key_data \in K : create_api_key(w, key_data)
  \/ \E w \in Workers : create_commit(w)
  \/ \E w \in Workers : create_refresh(w)

\* PATCH /keys/{key_id}/toggle
Toggle ==
  \/ \E w \in Workers, key_id \in KeyIds : toggle_api_key(w, key_id)
  \/ \E w \in Workers : toggle_commit(w)

\* DELETE /keys/{key_id}
Delete ==
  \/ \E w \in Workers, key_id \in KeyIds : delete_api_key(w, key_id)
  \/ \E w \in Workers : delete_commit(w)

\* GET /verify with the requests of R, none of which has a good session cookie
Verify(R) ==
  \/ \E w \in Workers, r \in R : verify_api_key(w, r)
  \/ \E w \in Workers : verify_commit(w)

\* GET /verify with the requests of R, some of which have a good session cookie
VerifySession(R) ==
  \/ Verify(R)
  \/ \E w \in Workers : verify_keys(w)
  \/ \E w \in Workers : verify_lookup(w)

\* POST /auth/register with the given names and outcomes of the password checks
Register(names, checks) ==
  \/ \E w \in Workers, u \in names, e \in Emails, m \in checks, v \in checks :
       register_submit(w, u, e, m, v)
  \/ \E w \in Workers : register_commit(w)
  \/ \E w \in Workers : register_refresh(w)

\* POST /auth/login
Login ==
  \/ \E w \in Workers, u \in Usernames, ok \in BOOLEAN : login_submit(w, u, ok)
  \/ \E w \in Workers : login_commit(w)

\* the forms of POST /auth/dashboard/create-key with the given names, scopes
\* lists and days fields
Forms(names, scopes, expires) ==
  [key_name : names, scopes : scopes, expires_in_days : expires]

\* POST /auth/dashboard/create-key
CreateWeb(F) ==
  \/ \E w \in Workers, c \in Cookies, f \in F :
       create_key_web(w, c, f.key_name, f.scopes, f.expires_in_days)
  \/ \E w \in Workers : create_key_web_check(w)
  \/ \E w \in Workers : create_key_web_commit(w)

\* POST /auth/dashboard/toggle-key/{key_id}
ToggleWeb ==
  \/ \E w \in Workers, c \in Cookies, key_id \in KeyIds : toggle_key_web(w, c, key_id)
  \/ \E w \in Workers : toggle_key_web_select(w)
  \/ \E w \in Workers : toggle_commit(w)

\* POST /auth/dashboard/delete-key/{key_id}
DeleteWeb ==
  \/ \E w \in Workers, c \in Cookies, key_id \in KeyIds : delete_key_web(w, c, key_id)
  \/ \E w \in Workers : delete_key_web_select(w)
  \/ \E w \in Workers : delete_commit(w)

\* ------------------------------------------------------- specification
\* the API of a service: keys of every expiration, toggled, deleted, verified
Next ==
  \/ Tick
  \/ Create(KeyData({<<tts>>}, {None, Some(1), Some(-1)}))
  \/ Toggle
  \/ Delete
  \/ Verify(HeaderRequests)

Spec == Init /\ [][Next]_vars

\* ------------------------------------------ specification of key issuing
\* scopes lists a client may send
ScopeLists == { <<>>, <<tts>>, <<star>>, <<stt, <<" ", "tts">>>> }

IssueNext ==
  \/ Tick
  \/ Create(KeyData(ScopeLists, {None, Some(0), Some(4000000)}))
  \/ \E w \in Workers : list_api_keys(w)
  \/ Verify(HeaderRequests)

IssueSpec == Init /\ [][IssueNext]_vars

\* ------------------------------ specification of concurrent /verify calls
ConcurrentRequests ==
  { Request(Some(<<"Bearer ", "k1">>), None, None, h, None, None, None) : h \in Hosts }

ConcNext ==
  \/ Tick
  \/ Create(KeyData({<<tts>>, <<star>>}, {None}))
  \/ Delete
  \/ Verify(ConcurrentRequests)

ConcSpec == Init /\ [][ConcNext]_vars

\* ----------------------------- specification of the use of a valid key
\* keys of two users, one with a name beyond latin-1, for a service or for
\* all, without expiration or with one a day ahead
ValidKeys ==
  [key_name : KeyNames, user : Principals \cup {Wide}, scopes : {<<tts>>, <<star>>},
   expires_in_days : {None, Some(1)}]

ValidNext ==
  \/ Tick
  \/ Create(ValidKeys)
  \/ Toggle
  \/ Verify(ConcurrentRequests)

ValidSpec == Init /\ [][ValidNext]_vars

\* ----------------------------------- specification of a failing commit
\* keys of a user whose name the response headers cannot carry
WideKeys == [key_name : KeyNames, user : {Wide}, scopes : {<<tts>>}, expires_in_days : {None}]

FaultNext ==
  \/ ConcNext
  \/ \E w \in Workers, key_data \in WideKeys : create_api_key(w, key_data)
  \/ \E w \in Workers : verify_commit_fails(w)

FaultSpec == Init /\ [][FaultNext]_vars

\* --------------------------------- specification of the browser heuristic
\* requests without a usable credential, from browsers and from other clients
BrowserRequests ==
  { Request(a, None, c, h, u, acc, ua) :
      a \in {None, Some(<<"Basic ", "k1">>)},
      c \in {None, Some(Forged)},
      h \in {None, Some(<<"tts", ".", "example">>)},
      u \in {None, Some(<<"/caf", "U+00E9", "?", "q", "=", "1">>)},
      acc \in {None, Some(<<"text/html">>), Some(<<"application/json">>),
               Some(<<"application/json", ",", "text/html">>)},
      ua \in {None, Some(<<"Mozilla", "/5.0">>), Some(<<"curl">>)} }

BrowserNext ==
  \/ Tick
  \/ Create(KeyData({<<tts>>}, {None}))
  \/ \E w \in Workers, r \in BrowserRequests : verify_api_key(w, r)

BrowserSpec == Init /\ [][BrowserNext]_vars

\* --------------------------------- specification of the carrier precedence
\* requests that present up to three carriers; those with an empty Bearer
\* value come from browsers and from other clients
CarrierRequests ==
  { Request(a, x, c, Some(<<"tts", ".", "example">>), None, None, None) :
      a \in {None, Some(<<"Bearer ", "k1">>), Some(<<"Bearer ", "k2">>)},
      x \in {None, Some(<<"k1">>)},
      c \in Cookies \ {Some(Forged)} }
  \cup
  { Request(Some(<<"Bearer ">>), x, c, Some(<<"tts", ".", "example">>), None, acc, None) :
      x \in {None, Some(<<"k1">>)},
      c \in Cookies \ {Some(Forged)},
      acc \in {None, Some(<<"text/html">>)} }

CarrierNext ==
  \/ Register(Usernames, {TRUE})
  \/ CreateWeb(Forms({"n1"}, {<<tts>>}, {None}))
  \/ VerifySession(CarrierRequests)

CarrierSpec == Init /\ [][CarrierNext]_vars

\* --------------------------------- specification of the principal's name
PrincipalNames == {"alice", "unknown", Wide}

\* requests with a session cookie, a Bearer header, an X-API-Key header, or
\* several of them
PrincipalRequests ==
  { Request(a, x, c, Some(<<"tts", ".", "example">>), None, None, None) :
      a \in {None, Some(<<"Bearer ", "k1">>)},
      x \in {None, Some(<<"k2">>)},
      c \in Cookies \ {Some(Forged)} }

PrincipalNext ==
  \/ Register(PrincipalNames, {TRUE})
  \/ CreateWeb(Forms({"n1"}, {<<tts>>}, {None}))
  \/ Create([key_name : {"n2"}, user : Principals, scopes : {<<tts>>},
             expires_in_days : {None}])
  \/ VerifySession(PrincipalRequests)

PrincipalSpec == Init /\ [][PrincipalNext]_vars

\* ------------------------------ specification of the session-cookie path
\* requests whose only carrier is a session cookie the server issued
SessionRequests ==
  { Request(None, None, Some(c), Some(<<"tts", ".", "example">>), None, None, None) :
      c \in cookies }

\* the forms of the dashboard: a key for tts or for stt that does not expire,
\* and a key for tts with a scope beyond U+00FF that does not expire or has
\* expired
SessionForms ==
  Forms({"n1"}, {<<tts>>, <<stt>>}, {None})
    \cup Forms({"n2"}, {<<tts, <<Wide>>>>}, {None, Some(<<"-", "1">>)})

\* the key the service toggles and deletes: the one created last
Latest == {MaxKeys}

\* the clock advances during the verifications
SessionNext ==
  \/ Register(Usernames, {TRUE})
  \/ CreateWeb(SessionForms)
  \/ \E w \in Workers, key_id \in Latest : toggle_api_key(w, key_id)
  \/ \E w \in Workers : toggle_commit(w)
  \/ \E w \in Workers, key_id \in Latest : delete_api_key(w, key_id)
  \/ \E w \in Workers : delete_commit(w)
  \/ VerifySession(SessionRequests)

SessionSpec == Init /\ [][SessionNext]_vars

\* ---------------------------------- specification of the web interface
\* the days field of the form: left out, blank, a number, a number in
\* Arabic-Indic digits, no number, a number of days past the year 9999
WebExpires ==
  {None, Some(<<" ">>), Some(<<" ", "+", "1", "0">>), Some(<<"U+0663">>), Some(<<"x">>),
   Some(<<"4", "0", "0", "0", "0", "0", "0">>)}

WebNext ==
  \/ Register(Usernames, BOOLEAN)
  \/ Login
  \/ CreateWeb(Forms({"n1"}, {<<tts>>}, WebExpires))
  \/ ToggleWeb
  \/ DeleteWeb

WebSpec == Init /\ [][WebNext]_vars

\* =========================================================== properties
\* In the action formulas req' is the step taken and the unprimed variables
\* are the store the step reads.

\* the request presents this secret in a Bearer header, or in an X-API-Key
\* header with no Bearer header before it
Presents(r, secret) ==
  \/ r.authorization = Some(<<"Bearer ">> \o secret)
  \/ /\ r.authorization = None
     /\ r.x_api_key \in {Some(secret), Some(secret \o <<" ">>)}

\* the stored keys, as indices
Keys == 1..Len(api_keys)

\* the scope set of a stored key holds the service or the wildcard
InScope(key, service) ==
  LET scope_set == {ParseScopes(key.scopes)[j] : j \in 1..Len(ParseScopes(key.scopes))}
  IN  service \in scope_set \/ star \in scope_set

\* the key is not past its expiration
Unexpired(key) == key.expires_at = None \/ Val(key.expires_at) >= now

\* the service a request is for
Target(r) ==
  CASE r.x_forwarded_host = Some(<<"tts", ".", "example">>) -> tts
    [] r.x_forwarded_host = Some(<<"llm", ".", "example">>) -> llm
    [] OTHER -> <<"unknown">>

\* the step taken last began a /verify call
IsFirst == req.step = "verify_api_key"

\* the step taken last ran the checks of a /verify call and they passed: the
\* call awaits the commit of its last_used
Passed == ~req.ended /\ pc[req.worker] = "verify_commit"

\* the local variables of the call whose step was taken last
Locals == Val(pending[req.worker])

\* the status and the reason the checks of the step taken last came to
Verdict ==
  IF req.ended THEN <<resp.status, resp.detail>>
  ELSE IF Passed THEN <<200, "">>
  ELSE <<0, "">>

\* C1: a verification that presents the secret of a stored credential with
\* active = false is answered 403 "API key is disabled", whatever the
\* credential's scopes and expiration and whatever the target service.
C1_DisabledDenied ==
  [][\A i \in Keys :
       (/\ IsFirst'
        /\ Presents(req', api_keys[i].api_key)
        /\ ~api_keys[i].is_active)
       => /\ req'.ended
          /\ resp'.status = 403
          /\ resp'.detail = "API key is disabled"]_vars

\* C1 witness: a disabled credential that is in scope and not expired was
\* presented and denied as disabled.
C1_Witness ==
  /\ IsFirst
  /\ req.ended
  /\ resp.detail = "API key is disabled"
  /\ \E i \in Keys : /\ Presents(req, api_keys[i].api_key)
                     /\ ~api_keys[i].is_active
                     /\ InScope(api_keys[i], Target(req))
                     /\ api_keys[i].expires_at = None

\* C2 as stated: a verification that presents the secret of a credential whose
\* expiration is strictly before the current time is answered "API key has
\* expired", whatever the active flag.
C2_ExpiredAlwaysReportedExpired ==
  [][\A i \in Keys :
       (/\ IsFirst'
        /\ Presents(req', api_keys[i].api_key)
        /\ ~Unexpired(api_keys[i]))
       => /\ req'.ended
          /\ resp'.detail = "API key has expired"]_vars

\* C2 amended: a verification that presents the secret of a credential whose
\* expiration is strictly before the current time is answered 403 and never
\* 200: "API key has expired" when the credential is active, "API key is
\* disabled" when it is not.
C2_ExpiredDenied ==
  [][\A i \in Keys :
       (/\ IsFirst'
        /\ Presents(req', api_keys[i].api_key)
        /\ ~Unexpired(api_keys[i]))
       => /\ req'.ended
          /\ resp'.status = 403
          /\ resp'.detail = IF api_keys[i].is_active THEN "API key has expired"
                                                      ELSE "API key is disabled"]_vars

\* C2 witness: an active, in-scope credential past its expiration was presented
\* and denied as expired.
C2_Witness ==
  /\ IsFirst
  /\ req.ended
  /\ resp.status = 403
  /\ resp.detail = "API key has expired"
  /\ \E i \in Keys : /\ Presents(req, api_keys[i].api_key)
                     /\ api_keys[i].is_active
                     /\ InScope(api_keys[i], Target(req))
                     /\ ~Unexpired(api_keys[i])

\* every text of the list has a latin-1 encoding
AllLatin1(s) == \A i \in 1..Len(s) : Latin1(s[i])

\* JSONResponse can encode the headers of a 200 response with this user name,
\* these stored scopes and this service
Encodable(user, scopes, service) ==
  /\ Latin1(user)
  /\ AllLatin1(scopes)
  /\ AllLatin1(service)

\* C3 as stated: a verification that presents the secret of a credential that
\* is active, has no expiration or one not before the current time, and whose
\* scope set holds the target service or "*", passes the checks with the
\* current time as its last_used, which is not before the last_used the
\* credential had when the call read it; and the commit of the call is
\* answered 200 and leaves the credential with that last_used.
C3_ValidAllowed ==
  /\ [][\A i \in Keys :
          (/\ IsFirst'
           /\ Presents(req', api_keys[i].api_key)
           /\ api_keys[i].is_active
           /\ Unexpired(api_keys[i])
           /\ InScope(api_keys[i], Target(req')))
          => /\ Passed'
             /\ Locals'.db_key = api_keys[i]
             /\ Locals'.last_used = Some(now')
             /\ api_keys[i].last_used # None => now' >= Val(api_keys[i].last_used)]_vars
  /\ [][\A i \in Keys :
          (/\ req'.step = "verify_commit"
           /\ api_keys[i].id = Val(pending[req'.worker]).db_key.id
           /\ api_keys[i].api_key = Val(pending[req'.worker]).db_key.api_key)
          => LET p == Val(pending[req'.worker])
             IN  /\ resp'.status = 200
                 /\ resp'.key = api_keys[i].id
                 /\ Len(api_keys') = Len(api_keys)
                 /\ (p.last_used # p.db_key.last_used
                       \/ api_keys[i].last_used = p.db_key.last_used)
                      => api_keys'[i].last_used = p.last_used]_vars

\* C3 for the credentials whose user and scopes have a latin-1 encoding: the
\* commit of a call that passed the checks on such a credential is answered
\* 200 and leaves the credential with the call's last_used; the commit of a
\* call on any other credential writes the last_used too and is answered 500.
C3_EncodableAllowed ==
  [][\A i \in Keys :
       (/\ req'.step = "verify_commit"
        /\ api_keys[i].id = Val(pending[req'.worker]).db_key.id
        /\ api_keys[i].api_key = Val(pending[req'.worker]).db_key.api_key)
       => LET p == Val(pending[req'.worker])
          IN  /\ resp'.status = IF Encodable(p.db_key.user, p.db_key.scopes, p.service)
                                THEN 200 ELSE 500
              /\ resp'.status = 200 => resp'.key = api_keys[i].id
              /\ Len(api_keys') = Len(api_keys)
              /\ (p.last_used # p.db_key.last_used
                    \/ api_keys[i].last_used = p.db_key.last_used)
                   => api_keys'[i].last_used = p.last_used]_vars

\* C3 witness: a credential used before was allowed again at a later time
\* through the wildcard.
C3_Witness ==
  /\ req.step = "verify_commit"
  /\ resp.status = 200
  /\ \E i \in Keys : /\ api_keys[i].id = resp.key
                     /\ api_keys[i].last_used = Some(now)
                     /\ now > api_keys[i].created_at + 1
                     /\ InList(star, ParseScopes(api_keys[i].scopes))

\* C3 witness of the failure: the commit of a call on an active, unexpired,
\* in-scope credential whose user is beyond latin-1 wrote the last_used and
\* was answered 500.
C3_WitnessUnencodable ==
  /\ req.step = "verify_commit"
  /\ resp.status = 500
  /\ \E i \in Keys : /\ api_keys[i].user = Wide
                     /\ api_keys[i].is_active
                     /\ Unexpired(api_keys[i])
                     /\ api_keys[i].last_used = Some(now)

\* the outcome the ordered checks lookup, active, expiration, scope give a
\* candidate value
Ordered(value, service, t) ==
  IF \A i \in Keys : api_keys[i].api_key # value
  THEN <<401, "Invalid API key">>
  ELSE LET key == api_keys[CHOOSE i \in Keys : api_keys[i].api_key = value]
       IN  IF ~key.is_active THEN <<403, "API key is disabled">>
           ELSE IF key.expires_at # None /\ Val(key.expires_at) < t
                THEN <<403, "API key has expired">>
           ELSE IF ~InScope(key, service) THEN <<403, "Access denied">>
           ELSE <<200, "">>

\* the values a request may present
Values == {<<"k1">>, <<"k2">>}

\* C4: for a non-empty candidate value the outcome is that of the first failing
\* check in the order lookup (401), active (403), expiration (403), scope
\* (403), and the checks pass when none fails.
C4_OrderedChecks ==
  [][\A value \in Values :
       (IsFirst' /\ Presents(req', value))
       => Verdict' = Ordered(value, Target(req'), now)]_vars

\* C4 witness: a credential that is disabled, expired and out of scope at once
\* was reported disabled.
C4_Witness ==
  /\ IsFirst
  /\ req.ended
  /\ resp.detail = "API key is disabled"
  /\ \E i \in Keys : /\ Presents(req, api_keys[i].api_key)
                     /\ ~api_keys[i].is_active
                     /\ ~Unexpired(api_keys[i])
                     /\ ~InScope(api_keys[i], Target(req))

\* C7: a credential created through POST /keys with expires_in_days = 0 is
\* never answered 200.
C7_ZeroDaysNeverAllowed ==
  \A i \in Keys :
    (req.step = "verify_commit" /\ resp.status = 200 /\ api_keys[i].id = resp.key)
    => issued[i].expires_in_days # Some(0)

\* C8: after n toggles a credential's active flag is its initial value (true)
\* when n is even and the negation when n is odd; a toggle changes no other
\* field of the credential, and no other credential; so a credential that is
\* unexpired and in scope is answered "API key is disabled" after one toggle
\* and passes the checks after two.
C8_ToggleParity ==
  /\ [](\A i \in Keys : api_keys[i].is_active = (toggles[i] % 2 = 0))
  /\ [][\A i \in Keys :
          (/\ req'.step = "toggle_commit"
           /\ resp'.status = 200
           /\ api_keys[i].id = Val(pending[req'.worker]).id)
          => /\ toggles'[i] = toggles[i] + 1
             /\ api_keys' = [api_keys EXCEPT ![i].is_active = ~api_keys[i].is_active]]_vars
  /\ [][\A i \in Keys :
          (/\ IsFirst'
           /\ Presents(req', api_keys[i].api_key)
           /\ Unexpired(api_keys[i])
           /\ InScope(api_keys[i], Target(req')))
          => Verdict'[2] = IF toggles[i] % 2 = 1 THEN "API key is disabled" ELSE ""]_vars

\* C9: the entry GET /keys returns for a credential has the name and the scopes
\* list it was created with and active = true while it was never toggled, and
\* no entry carries a secret.
C9_ListRoundTrip ==
  resp.op = "list"
  => /\ Len(resp.keys) = Len(api_keys)
     /\ \A i \in Keys :
          /\ resp.keys[i].key_name = api_keys[i].key_name
          /\ resp.keys[i].scopes = issued[i].scopes
          /\ (toggles[i] = 0 => resp.keys[i].is_active)
          /\ "api_key" \notin DOMAIN resp.keys[i]

\* the request has an Authorization header that starts with "Bearer "
HasBearer(r) ==
  /\ r.authorization # None
  /\ Val(r.authorization) # <<>>
  /\ Head(Val(r.authorization)) = "Bearer "

\* the session cookie of the request resolves to a stored credential that is
\* active, unexpired and in scope
CookieResolves(r) ==
  /\ r.cookie # None
  /\ \E u \in 1..Len(users), i \in Keys :
       /\ deserialize_session(Val(r.cookie)) = Some(users[u].id)
       /\ users[u].is_active
       /\ api_keys[i].user_id = users[u].id
       /\ api_keys[i].is_active
       /\ api_keys[i].expires_at = None
       /\ InScope(api_keys[i], Target(r))

\* C5: when the request has a Bearer header next to a session cookie or an
\* X-API-Key header, the call never goes to the session's user or keys and is
\* decided as the Bearer value alone is: by the ordered checks on the Bearer
\* value, or, when that value is empty, as a request without credential (302
\* or 401).
C5_BearerWins ==
  [][(IsFirst' /\ HasBearer(req'))
     => LET value == Tail(Val(req'.authorization))
        IN  /\ pc'[req'.worker] \notin {"verify_keys", "verify_lookup"}
            /\ IF value = <<>>
               THEN req'.ended /\ resp'.status \in {302, 401} /\ resp'.key = 0
               ELSE /\ Verdict' = Ordered(value, Target(req'), now)
                    /\ Passed' => /\ Locals'.db_key.api_key = value
                                  /\ Locals'.carrier = "bearer"
                                  /\ Locals'.user_name = "unknown"]_vars

\* C5 witness: a Bearer value no credential has was answered 401 although the
\* session cookie and the X-API-Key header of the request were good.
C5_Witness ==
  /\ IsFirst
  /\ HasBearer(req)
  /\ req.ended
  /\ resp.status = 401
  /\ resp.detail = "Invalid API key"
  /\ CookieResolves(req)
  /\ req.x_api_key # None
  /\ \E i \in Keys : api_keys[i].api_key = Val(req.x_api_key)

\* C5 witness of the empty Bearer value: it was answered as a request
\* without credential although the session cookie was good.
C5_WitnessEmpty ==
  /\ IsFirst
  /\ req.authorization = Some(<<"Bearer ">>)
  /\ resp.status = 302
  /\ CookieResolves(req)

\* the request has no Bearer header, no X-API-Key header and no session cookie
NoCarrier(r) == ~HasBearer(r) /\ r.x_api_key = None /\ r.cookie = None

\* the header is there and holds the token
Mentions(header, token) == header # None /\ \E j \in 1..Len(Val(header)) : Val(header)[j] = token

LoginUrl == "https://auth.caronboulme.fr/auth/login"

\* C6 as stated: a request without carrier is answered 302 to the login page
\* when its Accept header contains "text/html", and 401 when it does not,
\* whatever its other headers.
C6_AcceptAloneDecides ==
  [][(IsFirst' /\ NoCarrier(req'))
     => /\ req'.ended
        /\ IF Mentions(req'.accept, "text/html")
           THEN resp'.status = 302 /\ Head(resp'.location) = LoginUrl
           ELSE resp'.status = 401]_vars

\* C6 amended: a request without carrier is answered 302 to the login page when
\* its Accept header contains "text/html", and 401 when neither its Accept
\* header contains "text/html" nor its User-Agent header contains "Mozilla".
C6_BrowserHeuristic ==
  [][(IsFirst' /\ NoCarrier(req'))
     => /\ req'.ended
        /\ Mentions(req'.accept, "text/html")
             => resp'.status = 302 /\ Head(resp'.location) = LoginUrl
        /\ (~Mentions(req'.accept, "text/html") /\ ~Mentions(req'.user_agent, "Mozilla"))
             => /\ resp'.status = 401
                /\ resp'.detail = "Missing or invalid authentication"]_vars

\* C6 witness: a request without carrier whose Accept header lists "text/html"
\* and whose User-Agent is no browser's was redirected to the login page with
\* the original destination.
C6_Witness ==
  /\ IsFirst
  /\ NoCarrier(req)
  /\ Mentions(req.accept, "text/html")
  /\ req.user_agent = Some(<<"curl">>)
  /\ resp.status = 302
  /\ Len(resp.location) > 1

\* C10 as stated: under any interleaving of /verify calls the stored last_used
\* of a credential never goes back to an earlier timestamp.
C10_LastUsedMonotonic ==
  [][\A i \in Keys :
       (/\ i <= Len(api_keys')
        /\ api_keys'[i].api_key = api_keys[i].api_key
        /\ api_keys[i].last_used # None)
       => /\ api_keys'[i].last_used # None
          /\ Val(api_keys'[i].last_used) >= Val(api_keys[i].last_used)]_vars

\* C10 amended: every committed write sets last_used to the clock reading of
\* the committing call (last writer wins), so the stored value is never after
\* the current time; it goes back to an earlier timestamp only when another
\* call committed between this call's lookup and its commit.
C10_LastWriterWins ==
  /\ [](\A i \in Keys : api_keys[i].last_used # None => Val(api_keys[i].last_used) <= now)
  /\ [][\A i \in Keys :
          (/\ req'.step = "verify_commit"
           /\ resp'.status = 200
           /\ api_keys[i].id = Val(pending[req'.worker]).db_key.id)
          => LET p == Val(pending[req'.worker])
             IN  /\ p.last_used # p.db_key.last_used
                      => api_keys' = [api_keys EXCEPT ![i].last_used = p.last_used]
                 /\ p.last_used = p.db_key.last_used => api_keys' = api_keys
                 /\ (api_keys[i].last_used = p.db_key.last_used
                       /\ api_keys[i].last_used # None)
                      => Val(api_keys'[i].last_used) >= Val(api_keys[i].last_used)]_vars

\* C10 witness: a worker committed its write after the clock had advanced and
\* after another worker had looked the same credential up, which now holds an
\* earlier reading than the stored one.
C10_Witness ==
  /\ req.step = "verify_commit"
  /\ resp.status = 200
  /\ \E w \in Workers, i \in Keys :
       /\ pc[w] = "verify_commit"
       /\ Val(pending[w]).db_key.id = api_keys[i].id
       /\ api_keys[i].last_used # None
       /\ Val(pending[w]).db_key.last_used # api_keys[i].last_used
       /\ Val(Val(pending[w]).last_used) < Val(api_keys[i].last_used)

\* C11: a /verify call whose checks passed answers 200 only when its last_used
\* write, if it has one to make, is stored; when the commit fails (the store
\* refuses it, or the row is gone) nothing is written and the call ends in a
\* 500, never in a 200, a 401 or a 403.  The one other 500 comes after a
\* commit that held: a header of the response has no latin-1 encoding.
C11_AllowOnlyAfterCommit ==
  [][req'.step \in {"verify_commit", "verify_commit_fails"}
     => LET p == Val(pending[req'.worker])
            change == p.last_used # p.db_key.last_used
            stored == \E i \in Keys : api_keys[i].id = p.db_key.id
            written == \E i \in 1..Len(api_keys') :
                         /\ api_keys'[i].id = p.db_key.id
                         /\ api_keys'[i].last_used = p.last_used
            failed == req'.step = "verify_commit_fails" \/ (change /\ ~stored)
        IN  /\ req'.ended
            /\ resp'.status \in {200, 500}
            /\ resp'.status = 200 => (~failed /\ (written \/ ~change))
            /\ failed => (resp'.status = 500 /\ api_keys' = api_keys)
            /\ (resp'.status = 500 /\ ~failed)
                 => /\ written \/ ~change
                    /\ ~Encodable(FinalUser(p.user_name, p.db_key), p.db_key.scopes,
                                  p.service)]_vars

\* C11 witness: the commit of a call whose checks had passed failed while the
\* row was still stored, and the call ended in a 500 with last_used unwritten.
C11_Witness ==
  /\ req.step = "verify_commit_fails"
  /\ resp.status = 500
  /\ api_keys # <<>>
  /\ \A i \in Keys : api_keys[i].last_used = None

\* C11 witness of the row that is gone: the UPDATE of the commit matched no
\* row and the call ended in a 500.
C11_WitnessGone ==
  /\ req.step = "verify_commit"
  /\ resp.status = 500
  /\ api_keys = <<>>

\* C11 witness of the 500 after the commit: the last_used of a credential
\* whose user is beyond latin-1 was written and the call ended in a 500.
C11_WitnessWritten ==
  /\ req.step = "verify_commit"
  /\ resp.status = 500
  /\ \E i \in Keys : /\ api_keys[i].user = Wide
                     /\ api_keys[i].last_used = Some(now)

\* the candidate of the request comes from a header
FromHeader(r) == HasBearer(r) \/ r.x_api_key # None

\* C12: in a 200 response the user name is the user name of the session's
\* active user, whatever that name is, when the candidate was resolved through
\* the session cookie; it is the stored user of the credential when the
\* candidate came from a Bearer or X-API-Key header, also when a session
\* cookie is present.  A call whose checks passed is answered 200 with that
\* name or, when the name or the scopes have no latin-1 encoding or the commit
\* fails, 500: never 200 with another name.
C12_PrincipalName ==
  /\ [][(IsFirst' /\ ~req'.ended)
        => IF FromHeader(req')
           THEN /\ Passed'
                /\ Locals'.carrier = IF HasBearer(req') THEN "bearer" ELSE "x_api_key"
                /\ Locals'.user_name = "unknown"
           ELSE /\ pc'[req'.worker] = "verify_keys"
                /\ \E u \in 1..Len(users) :
                     /\ deserialize_session(Val(req'.cookie)) = Some(users[u].id)
                     /\ users[u].is_active
                     /\ Locals'.user_name = users[u].username]_vars
  /\ [][\A w \in Workers :
          (/\ pc[w] \in {"verify_keys", "verify_lookup"}
           /\ pc'[w] \in {"verify_lookup", "verify_commit"}
           /\ pc'[w] # pc[w])
          => /\ Val(pending'[w]).user_name = Val(pending[w]).user_name
             /\ pc'[w] = "verify_commit" => Val(pending'[w]).carrier = "cookie"]_vars
  /\ [][req'.step = "verify_commit"
        => LET p == Val(pending[req'.worker])
               name == IF req'.carrier = "cookie" THEN p.user_name ELSE p.db_key.user
           IN  /\ resp'.status \in {200, 500}
               /\ resp'.status = 200 => resp'.user = name
               /\ ~Encodable(name, p.db_key.scopes, p.service) => resp'.status = 500]_vars

\* C12 witness: the session of a user named "unknown" was allowed under that
\* name.
C12_Witness ==
  /\ req.step = "verify_commit"
  /\ req.carrier = "cookie"
  /\ resp.status = 200
  /\ resp.user = "unknown"
  /\ users # <<>>
  /\ users[1].username = "unknown"

\* C12 witness of the header: a Bearer credential of another principal was
\* allowed under its stored user while a user named "alice" is registered.
C12_WitnessHeader ==
  /\ req.step = "verify_commit"
  /\ req.carrier = "bearer"
  /\ resp.status = 200
  /\ resp.user = "svc"
  /\ users # <<>>
  /\ users[1].username = "alice"

\* C12 witness of the X-API-Key header: the checks passed on the credential
\* of the header, of another principal, while the session cookie of the
\* request resolves to a credential of its user.
C12_WitnessApiKey ==
  /\ IsFirst
  /\ Passed
  /\ req.authorization = None
  /\ CookieResolves(req)
  /\ Locals.carrier = "x_api_key"
  /\ Locals.db_key.api_key = Val(req.x_api_key)
  /\ Locals.db_key.user = "svc"
  /\ Locals.user_name = "unknown"

\* C12 witness of the X-API-Key answer: that credential was allowed under its
\* stored user while a user named "alice" is registered.
C12_WitnessApiKeyAllowed ==
  /\ req.step = "verify_commit"
  /\ req.carrier = "x_api_key"
  /\ resp.status = 200
  /\ resp.user = "svc"
  /\ users # <<>>
  /\ users[1].username = "alice"

\* C12 witness of a name beyond latin-1: the session of a user of that name
\* passed the checks and was answered 500, with no ALLOW payload.
C12_WitnessWide ==
  /\ req.step = "verify_commit"
  /\ req.carrier = "cookie"
  /\ resp.status = 500
  /\ users # <<>>
  /\ users[1].username = Wide

\* C13: a verification that ends in 401, 403 or a redirect to the login page
\* leaves every stored credential as it was; one that ends in 200 changes the
\* last_used field of the one credential whose secret was checked and nothing
\* else, and no step of a call adds or removes a credential or changes a user.
C13_VerifyFrame ==
  [][req'.op = "verify"
     => /\ users' = users
        /\ Len(api_keys') = Len(api_keys)
        /\ ~(req'.ended /\ resp'.status = 200) => api_keys' = api_keys
        /\ (req'.ended /\ resp'.status = 200)
             => \/ api_keys' = api_keys
                \/ \E k \in Keys :
                     /\ api_keys[k].api_key = Val(pending[req'.worker]).db_key.api_key
                     /\ api_keys' = [api_keys EXCEPT
                                       ![k].last_used = Val(pending[req'.worker]).last_used]]_vars

\* the stored keys of a user that are active and in scope for the service
Usable(user_id, service) ==
  {i \in Keys : /\ api_keys[i].user_id = user_id
                /\ api_keys[i].is_active
                /\ InScope(api_keys[i], service)}

\* those of them no other is newer than
Newest(user_id, service) ==
  {i \in Usable(user_id, service) :
     \A j \in Usable(user_id, service) : api_keys[j].created_at <= api_keys[i].created_at}

\* C14 as claimed: a request whose only carrier is the session cookie of an
\* active user passes the checks whenever that user owns a credential that is
\* active, unexpired and in scope for the target service, whatever other
\* credentials the user owns.
C14_SessionComplete ==
  [][(/\ req'.step = "verify_lookup"
      /\ \E i \in Usable(Val(pending[req'.worker]).user_id,
                         Val(pending[req'.worker]).service) : Unexpired(api_keys[i]))
     => Passed']_vars

\* C14: a request whose only carrier is the session cookie of an active user
\* is decided by one credential: the newest-created one of that user that is
\* active and in scope for the target service when the user's keys are read.
\* There being none, the request is answered as one without credential; else
\* that credential alone is looked up: the checks pass when it is unexpired,
\* the answer is 403 "API key has expired" when it is expired and 401 when it
\* is stored no more, whatever other credentials the user owns.  A call whose
\* checks passed is answered 200 for that credential when its last_used write,
\* if it has one to make, finds the row and the user name and the scopes have
\* a latin-1 encoding, and 500 when not.
C14_NewestKeyDecides ==
  /\ [][req'.step = "verify_keys"
        => LET p == Val(pending[req'.worker])
               newest == Newest(p.user_id, Target(p.r))
           IN  IF newest = {}
               THEN req'.ended /\ resp'.status \in {302, 401} /\ resp'.key = 0
               ELSE /\ pc'[req'.worker] = "verify_lookup"
                    /\ \E i \in newest : /\ Locals'.cached = Some(api_keys[i])
                                         /\ Locals'.api_key = api_keys[i].api_key]_vars
  /\ [][req'.step = "verify_lookup"
        => LET c == Val(Val(pending[req'.worker]).cached)
           IN  IF \A i \in Keys : api_keys[i].api_key # c.api_key
               THEN req'.ended /\ Verdict' = <<401, "Invalid API key">>
               ELSE IF Unexpired(c)
               THEN Passed' /\ Locals'.db_key = c
               ELSE req'.ended /\ Verdict' = <<403, "API key has expired">>]_vars
  /\ [][(req'.step = "verify_commit" /\ req'.carrier = "cookie")
        => LET p == Val(pending[req'.worker])
               gone == /\ p.last_used # p.db_key.last_used
                       /\ \A i \in Keys : api_keys[i].id # p.db_key.id
           IN  /\ resp'.status =
                    IF gone \/ ~Encodable(FinalUser(p.user_name, p.db_key),
                                          p.db_key.scopes, p.service)
                    THEN 500 ELSE 200
               /\ resp'.status = 200 => /\ resp'.key = p.db_key.id
                                        /\ resp'.user = p.user_name]_vars

\* C14 witness: the checks of a session request passed on the newer of the
\* user's two active credentials in scope.
C14_Witness ==
  /\ req.step = "verify_lookup"
  /\ Passed
  /\ Len(api_keys) = 2
  /\ \E j \in Keys :
       /\ api_keys[j].id # Locals.db_key.id
       /\ api_keys[j].user_id = Locals.db_key.user_id
       /\ api_keys[j].is_active
       /\ InScope(api_keys[j], Locals.service)
       /\ api_keys[j].created_at < Locals.db_key.created_at

\* C14 witness of the denial: a session request was denied as expired although
\* the user owns an older credential that is active, unexpired and in scope.
C14_WitnessExpired ==
  /\ req.step = "verify_lookup"
  /\ req.ended
  /\ resp.status = 403
  /\ resp.detail = "API key has expired"
  /\ \E i, j \in Keys :
       /\ api_keys[i].user_id = api_keys[j].user_id
       /\ api_keys[i].is_active /\ api_keys[j].is_active
       /\ InScope(api_keys[i], resp.service) /\ InScope(api_keys[j], resp.service)
       /\ api_keys[i].created_at < api_keys[j].created_at
       /\ Unexpired(api_keys[i])
       /\ ~Unexpired(api_keys[j])

\* C14 witness of the deletion: the credential a session request had picked
\* was deleted before its lookup and the request was answered 401, the user
\* still owning an active, unexpired credential in scope.
C14_WitnessDeleted ==
  /\ req.step = "verify_lookup"
  /\ req.ended
  /\ resp.status = 401
  /\ resp.detail = "Invalid API key"
  /\ \E i \in Keys : /\ api_keys[i].is_active
                     /\ Unexpired(api_keys[i])
                     /\ InScope(api_keys[i], resp.service)

\* C14 witness of the active flag: a session request picked the older of the
\* user's two credentials in scope, the newer one being disabled.
C14_WitnessDisabled ==
  /\ req.step = "verify_keys"
  /\ ~req.ended
  /\ \E i, j \in Keys :
       /\ Locals.cached = Some(api_keys[i])
       /\ api_keys[j].user_id = api_keys[i].user_id
       /\ api_keys[j].created_at > api_keys[i].created_at
       /\ InScope(api_keys[j], Locals.service)
       /\ ~api_keys[j].is_active

\* C14 witness of the scope: a session request picked the older of the user's
\* two active credentials, the newer one being out of scope.
C14_WitnessOutOfScope ==
  /\ req.step = "verify_keys"
  /\ ~req.ended
  /\ \E i, j \in Keys :
       /\ Locals.cached = Some(api_keys[i])
       /\ api_keys[j].user_id = api_keys[i].user_id
       /\ api_keys[j].created_at > api_keys[i].created_at
       /\ api_keys[j].is_active
       /\ ~InScope(api_keys[j], Locals.service)

\* C14 witness of the answer: a session request that passed the checks was
\* answered 200 once its last_used was written.
C14_WitnessAllowed ==
  /\ req.step = "verify_commit"
  /\ req.carrier = "cookie"
  /\ resp.status = 200
  /\ \E i \in Keys : api_keys[i].id = resp.key /\ api_keys[i].last_used = Some(now)

\* C14 witness of the 500: a session request that passed the checks on a
\* credential with a scope beyond latin-1 was answered 500 after its last_used
\* was written.
C14_WitnessUnencodable ==
  /\ req.step = "verify_commit"
  /\ req.carrier = "cookie"
  /\ resp.status = 500
  /\ \E i \in Keys : /\ ~AllLatin1(api_keys[i].scopes)
                     /\ api_keys[i].last_used = Some(now)

====
